---- MODULE Spec2Model ----
(***************************************************************************)
(* SearchPro (gb-gdev-search): the unified index and ranked search engine. *)
(*                                                                         *)
(* The model covers the Record Store (table "indexes" with its unique      *)
(* constraint and its two BEFORE triggers), the ingestion handlers         *)
(* (single upsert, bulk upsert, delete), the query handlers (search,       *)
(* suggestions, list), the search log, and the startup seeding.            *)
(*                                                                         *)
(* Texts are sequences of one-character strings, so that the text          *)
(* functions (ILIKE, to_tsvector, plainto_tsquery) are computed character  *)
(* by character.  The database is PostgreSQL at READ COMMITTED: a          *)
(* statement sees the committed rows plus its own transaction's writes,    *)
(* and a write waits for the transaction that holds the key.               *)
(***************************************************************************)
EXTENDS Integers, Sequences, FiniteSets, TLC

\* ------------------------------------------------------------------ bounds

\* Requests begun in one behaviour.
MaxOps == 2
\* Last value of the wall clock, in ticks.
MaxTime == 2
\* Clock ticks per second (the code's clock has 10^6; what matters is that
\* several instants share one second).
TicksPerSecond == 2
\* Store writes the environment makes fail in one behaviour.
MaxFaults == 1

\* ------------------------------------------------------------------- texts

\* SQL NULL / Python None for an optional text.
NULL == <<"NULL">>

\* coalesce(x, '')
Coalesce(t) == IF t = NULL THEN <<>> ELSE t

\* lower(): the upper-case letters of the model's texts.
Lower(c) ==
    CASE c = "A" -> "a"
      [] c = "B" -> "b"
      [] c = "C" -> "c"
      [] OTHER -> c

LowerText(t) == [i \in 1..Len(t) |-> Lower(t[i])]

\* Characters the full-text parser takes as part of a word; every other
\* character (space, '_', '%', '\', ...) separates words.
IsWordChar(c) ==
    Lower(c) \in {"a", "b", "c", "d", "e", "g", "h", "i", "k", "l", "m",
                  "n", "o", "p", "r", "s", "t", "u", "x", "y"}

\* The 'english' stop words that the texts of the model can form.
StopWords ==
    { <<"a">>, <<"i">>, <<"s">>, <<"t">>, <<"d">>, <<"m">>, <<"o">>, <<"y">>,
      <<"a", "n">>, <<"a", "s">>, <<"a", "t">>, <<"b", "e">>, <<"t", "h", "e">> }

\* The words of a text in order, lower-cased: maximal runs of word characters.
RECURSIVE WordsFrom(_, _, _)
WordsFrom(t, i, cur) ==
    IF i > Len(t)
      THEN (IF cur = <<>> THEN <<>> ELSE <<cur>>)
      ELSE IF IsWordChar(t[i])
             THEN WordsFrom(t, i + 1, Append(cur, Lower(t[i])))
             ELSE (IF cur = <<>> THEN <<>> ELSE <<cur>>)
                  \o WordsFrom(t, i + 1, <<>>)

Words(t) == WordsFrom(t, 1, <<>>)

\* to_tsvector('english', t): the lexemes with their positions; a stop word
\* takes a position and leaves no lexeme.  (No word of the model's texts has
\* a suffix the English stemmer removes.)
ToTsvector(t) ==
    LET w == Words(t)
    IN  { <<w[i], i>> : i \in {j \in 1..Len(w) : w[j] \notin StopWords} }

\* plainto_tsquery('english', q): the conjunction of q's lexemes.
PlaintoTsquery(q) ==
    LET w == Words(q)
    IN  { w[i] : i \in {j \in 1..Len(w) : w[j] \notin StopWords} }

\* tsvector @@ tsquery: an empty query matches nothing.
TsMatch(vec, query) ==
    /\ query # {}
    /\ \A lex \in query : \E e \in vec : e[1] = lex

\* text LIKE pattern: '%' any run, '_' any one character, '\' takes the next
\* pattern character literally.
RECURSIVE LikeMatch(_, _)
LikeMatch(pat, s) ==
    IF pat = <<>> THEN s = <<>>
    ELSE IF Head(pat) = "%"
      THEN LikeMatch(Tail(pat), s) \/ (s # <<>> /\ LikeMatch(pat, Tail(s)))
    ELSE IF Head(pat) = "\\" /\ Len(pat) >= 2
      THEN /\ s # <<>>
           /\ Head(s) = pat[2]
           /\ LikeMatch(SubSeq(pat, 3, Len(pat)), Tail(s))
    ELSE /\ s # <<>>
         /\ (Head(pat) = "_" \/ Head(pat) = Head(s))
         /\ LikeMatch(Tail(pat), Tail(s))

\* column.ilike(pattern)
ILike(s, pat) == LikeMatch(LowerText(pat), LowerText(s))

\* Index.title.ilike(f"%{q}%")
TitleILike(title, q) == ILike(title, <<"%">> \o q \o <<"%">>)

\* s contains q as a case-insensitive substring, literally.
ContainsCI(s, q) ==
    \E i \in 0..(Len(s) - Len(q)) :
        \A j \in 1..Len(q) : Lower(s[i + j]) = Lower(q[j])

\* ------------------------------------------------------------ enumerations

Crm == <<"c", "r", "m">>
Helpdesk == <<"h", "e", "l", "p", "d", "e", "s", "k">>
Bogus == <<"b", "o", "g", "u", "s">>
Contact == <<"c", "o", "n", "t", "a", "c", "t">>
Ticket == <<"t", "i", "c", "k", "e", "t">>

\* class SourceApp (the members the model's items use, of the ten).
SourceApp == {Crm, Helpdesk}

\* class SourceType (the members the model's items use, of the ten).
SourceType == {Contact, Ticket}

\* ------------------------------------------------------------------ inputs

R1 == <<"r", "1">>

\* Submitted payloads.  ItemA and ItemB share a natural key and differ in
\* every other field; ItemC has another key and ItemA's title; ItemBad has a
\* source_app outside the enumeration.
ItemA ==
    [name |-> <<"x">>, source_app |-> Crm, source_type |-> Contact,
     record_id |-> R1, title |-> <<"a", "b", "c">>, content |-> NULL,
     tags |-> NULL, url |-> NULL]
ItemB ==
    [name |-> <<"y">>, source_app |-> Crm, source_type |-> Ticket,
     record_id |-> R1, title |-> <<"A", "_", "c">>, content |-> <<"b", "c">>,
     tags |-> <<"vip">>, url |-> <<"u">>]
ItemC ==
    [name |-> <<"x">>, source_app |-> Helpdesk, source_type |-> Ticket,
     record_id |-> R1, title |-> <<"a", "b", "c">>, content |-> NULL,
     tags |-> NULL, url |-> NULL]
ItemBad == [ItemC EXCEPT !.source_app = Bogus]
\* ItemA with an empty title.
ItemEmpty == [ItemA EXCEPT !.title = <<>>]

ValidItems == {ItemA, ItemB, ItemC}

\* ItemA with a backslash in its title, for the query workload.
ItemD == [ItemA EXCEPT !.title = <<"a", "\\", "b">>]
QueryItems == ValidItems \cup {ItemD}
Payloads == ValidItems \cup {ItemBad, ItemEmpty}

\* Bulk batches: two keys in either order, one key twice, and a batch with
\* a malformed item.
Batches ==
    { <<ItemA, ItemC>>, <<ItemC, ItemA>>, <<ItemA, ItemB>>,
      <<ItemA, ItemBad>> }

\* SEED_INDEXES, cut to its first record's shape under the model's key.
SEED_INDEXES == <<ItemC>>
\* SEED_SAVED_SEARCHES, cut to one entry.
SEED_SAVED_SEARCHES == <<[name |-> <<"s">>, query |-> <<"a">>]>>

Key(r) == <<r.source_app, r.record_id>>
Keys == {Key(it) : it \in ValidItems}

\* Query texts: a stop word, a text with a LIKE wildcard, a plain substring,
\* a lone wildcard, a lone backslash.
QueryTexts == { <<"a">>, <<"a", "_", "c">>, <<"b", "c">>, <<"%">>, <<"\\">> }

\* ----------------------------------------------------------- table "indexes"

NoRow == [id |-> 0]

\* searchpro_update_search_vector()
TrgSearchVector(new) ==
    [new EXCEPT !.search_vector =
        ToTsvector(Coalesce(new.name) \o <<" ">> \o Coalesce(new.title)
                   \o <<" ">> \o Coalesce(new.content) \o <<" ">>
                   \o Coalesce(new.source_app) \o <<" ">>
                   \o Coalesce(new.source_type))]

\* searchpro_set_updated_at(): NOW() is the transaction's start time.
TrgUpdatedAt(new, txnow) == [new EXCEPT !.updated_at = txnow]

\* trg_indexes_search_vector BEFORE INSERT
BeforeInsert(new) == TrgSearchVector(new)

\* Mutant: trg_indexes_search_vector created BEFORE INSERT only.
BeforeUpdateWithoutSearchVector(new, txnow) == TrgUpdatedAt(new, txnow)

\* trg_indexes_search_vector, then trg_indexes_updated_at, BEFORE UPDATE
BeforeUpdate(new, txnow) == TrgUpdatedAt(TrgSearchVector(new), txnow)

\* The row an INSERT proposes for a payload.
NewRow(item, id, last_synced, created_at, updated_at) ==
    [id |-> id, name |-> item.name, source_app |-> item.source_app,
     source_type |-> item.source_type, record_id |-> item.record_id,
     title |-> item.title, content |-> item.content, tags |-> item.tags,
     url |-> item.url, last_synced |-> last_synced,
     created_at |-> created_at, updated_at |-> updated_at,
     search_vector |-> {}]

\* The rows of a table with a given natural key.
RowsOf(tbl, k) == {r \in tbl : Key(r) = k}

RowOf(tbl, k) ==
    IF RowsOf(tbl, k) = {} THEN NoRow ELSE CHOOSE r \in RowsOf(tbl, k) : TRUE

\* Mutant: ON CONFLICT DO UPDATE that also sets created_at.
PgInsertSettingCreatedAt(tbl, new, on_conflict_do_update, txnow) ==
    LET old == RowOf(tbl, Key(new))
        upd == [new EXCEPT !.id = old.id]
    IN  IF old = NoRow
          THEN [tbl |-> tbl \cup {BeforeInsert(new)},
                row |-> BeforeInsert(new), error |-> "none"]
          ELSE IF on_conflict_do_update
                 THEN [tbl |-> (tbl \ {old}) \cup {BeforeUpdate(upd, txnow)},
                       row |-> BeforeUpdate(upd, txnow), error |-> "none"]
                 ELSE [tbl |-> tbl, row |-> NoRow,
                       error |-> "unique_violation"]

\* Mutant: ON CONFLICT DO UPDATE whose SET list lacks title.
PgInsertKeepingTitle(tbl, new, on_conflict_do_update, txnow) ==
    LET old == RowOf(tbl, Key(new))
        upd == [old EXCEPT !.name = new.name,
                           !.source_type = new.source_type,
                           !.content = new.content,
                           !.tags = new.tags,
                           !.url = new.url,
                           !.last_synced = new.last_synced,
                           !.updated_at = new.updated_at]
    IN  IF old = NoRow
          THEN [tbl |-> tbl \cup {BeforeInsert(new)},
                row |-> BeforeInsert(new), error |-> "none"]
          ELSE IF on_conflict_do_update
                 THEN [tbl |-> (tbl \ {old}) \cup {BeforeUpdate(upd, txnow)},
                       row |-> BeforeUpdate(upd, txnow), error |-> "none"]
                 ELSE [tbl |-> tbl, row |-> NoRow,
                       error |-> "unique_violation"]

\* INSERT ... [ON CONFLICT ON CONSTRAINT uq_indexes_source_record DO UPDATE
\* SET ...] RETURNING: the table after the statement, the returned row, and
\* the error raised (uq_indexes_source_record rejects a second row per key).
PgInsert(tbl, new, on_conflict_do_update, txnow) ==
    LET old == RowOf(tbl, Key(new))
        upd == [old EXCEPT !.name = new.name,
                           !.source_type = new.source_type,
                           !.title = new.title,
                           !.content = new.content,
                           !.tags = new.tags,
                           !.url = new.url,
                           !.last_synced = new.last_synced,
                           !.updated_at = new.updated_at]
    IN  IF old = NoRow
          THEN [tbl |-> tbl \cup {BeforeInsert(new)},
                row |-> BeforeInsert(new), error |-> "none"]
          ELSE IF on_conflict_do_update
                 THEN [tbl |-> (tbl \ {old}) \cup {BeforeUpdate(upd, txnow)},
                       row |-> BeforeUpdate(upd, txnow), error |-> "none"]
                 ELSE [tbl |-> tbl, row |-> NoRow,
                       error |-> "unique_violation"]

\* ---------------------------------------------------------------- schemas

MaxNameLen == 500
MaxRecordIdLen == 255
MaxTitleLen == 1000
MaxUrlLen == 2000

\* IndexCreate: what pydantic accepts.
IndexCreateValid(item) ==
    /\ Len(item.name) <= MaxNameLen
    /\ item.source_app \in SourceApp
    /\ item.source_type \in SourceType
    /\ Len(item.record_id) <= MaxRecordIdLen
    /\ Len(item.title) <= MaxTitleLen
    /\ (item.url = NULL \/ Len(item.url) <= MaxUrlLen)

\* BulkIndexRequest: items: List[IndexCreate], validated as one body.
BulkIndexRequestValid(items) ==
    \A i \in 1..Len(items) : IndexCreateValid(items[i])

\* ------------------------------------------------------------------- state

\* The request handlers (sessions) that run concurrently; they are
\* interchangeable, so a handler takes its first request only after every
\* handler before it has taken one.
Procs == {1, 2}

VARIABLES
    clock,           \* the wall clock, in ticks
    indexes,         \* committed rows of table indexes
    saved_searches,  \* committed rows of table saved_searches
    search_log,      \* committed rows of table search_log, in insertion order
    next_id,         \* the sequence behind indexes.id
    pc,              \* each handler's position
    req,             \* each handler's request
    loc,             \* each handler's local variables
    tx,              \* each handler's session transaction
    resp,            \* each handler's last response
    nops,            \* requests begun
    nfaults          \* store writes failed by the environment

vars == <<clock, indexes, saved_searches, search_log, next_id, pc, req, loc,
          tx, resp, nops, nfaults>>

\* now.replace(microsecond=0)
FloorSecond(t) == t - (t % TicksPerSecond)

NoTx == [active |-> FALSE, failed |-> FALSE, start |-> 0, keys |-> {},
         rows |-> {}]
NoReq == [op |-> "none", n |-> 0]
NoLoc == [now |-> 0]
NoResp == [status |-> 0]

\* What a statement of p's transaction sees: the committed rows, overlaid
\* with the transaction's own writes.
View(p) == {r \in indexes : Key(r) \notin tx[p].keys} \cup tx[p].rows

\* A write on key k waits while another open transaction has written k.
Blocked(p, k) == \E o \in Procs \ {p} : k \in tx[o].keys

\* The transaction after a statement that wrote key k and left table tbl.
TxAfterWrite(p, k, tbl) ==
    [active |-> TRUE, failed |-> tx[p].failed,
     start |-> IF tx[p].active THEN tx[p].start ELSE clock,
     keys |-> tx[p].keys \cup {k},
     rows |-> {r \in tbl : Key(r) \in tx[p].keys \cup {k}}]

\* NOW() inside p's transaction.
TxNow(p) == IF tx[p].active THEN tx[p].start ELSE clock

\* The state seeding leaves behind on an empty database.
SeedRows(now) ==
    { BeforeInsert(NewRow(SEED_INDEXES[i], i, now, now, now)) :
        i \in 1..Len(SEED_INDEXES) }

Init ==
    /\ clock = 0
    /\ indexes = SeedRows(0)
    /\ saved_searches = SEED_SAVED_SEARCHES
    /\ search_log = <<>>
    /\ next_id = Len(SEED_INDEXES) + 1
    /\ pc = [p \in Procs |-> "idle"]
    /\ req = [p \in Procs |-> NoReq]
    /\ loc = [p \in Procs |-> NoLoc]
    /\ tx = [p \in Procs |-> NoTx]
    /\ resp = [p \in Procs |-> NoResp]
    /\ nops = 0
    /\ nfaults = 0

\* The clock advances.
Tick ==
    /\ clock < MaxTime
    /\ clock' = clock + 1
    /\ UNCHANGED <<indexes, saved_searches, search_log, next_id, pc, req, loc,
                   tx, resp, nops, nfaults>>

\* A handler is free to take a request.
Free(p) == pc[p] \in {"idle", "done"}
CanBegin(p) ==
    /\ Free(p)
    /\ pc[p] = "idle" => \A o \in Procs : o < p => pc[o] # "idle"
    /\ nops < MaxOps

\* The requests in flight, by their number.
InFlight == {req[o].n : o \in {x \in Procs : ~Free(x)}}

\* ------------------------------------------------------------ _upsert_index

\* Mutant: the statement built without on_conflict_do_update.
UpsertIndexPlainInsert(p, item, now) ==
    LET res == PgInsert(View(p), NewRow(item, next_id, now, now, now), FALSE,
                        TxNow(p))
    IN  [tbl |-> res.tbl, row |-> res.row, error |-> res.error,
         before |-> RowOf(View(p), Key(item)),
         created |-> IF res.error = "none"
                       THEN res.row.created_at >= FloorSecond(now)
                       ELSE FALSE]

\* _upsert_index from its statement on: the INSERT ... ON CONFLICT on the
\* session's view, the row it returns, and the created flag computed from it.
UpsertIndex(p, item, now) ==
    LET res == PgInsert(View(p), NewRow(item, next_id, now, now, now), TRUE,
                        TxNow(p))
    IN  [tbl |-> res.tbl, row |-> res.row, error |-> res.error,
         before |-> RowOf(View(p), Key(item)),
         created |-> IF res.error = "none"
                       THEN res.row.created_at >= FloorSecond(now)
                       ELSE FALSE]

\* POST /indexes: validation, then now = datetime.now() of _upsert_index.
\* (overlaps keeps the numbers of the requests in flight at that moment.)
BeginUpsert(p, item) ==
    /\ CanBegin(p)
    /\ nops' = nops + 1
    /\ req' = [req EXCEPT ![p] =
                 [op |-> "upsert", n |-> nops + 1, item |-> item]]
    /\ IF IndexCreateValid(item)
         THEN /\ pc' = [pc EXCEPT ![p] = "upsert_exec"]
              /\ loc' = [loc EXCEPT ![p] =
                           [now |-> clock, overlaps |-> InFlight]]
              /\ resp' = [resp EXCEPT ![p] = NoResp]
         ELSE /\ pc' = [pc EXCEPT ![p] = "done"]
              /\ loc' = [loc EXCEPT ![p] = NoLoc]
              /\ resp' = [resp EXCEPT ![p] = [status |-> 422]]
    /\ UNCHANGED <<clock, indexes, saved_searches, search_log, next_id, tx,
                   nfaults>>

\* db.execute(stmt) succeeds; created is computed and the record re-read.
UpsertExec(p) ==
    /\ pc[p] = "upsert_exec"
    /\ ~Blocked(p, Key(req[p].item))
    /\ LET r == UpsertIndex(p, req[p].item, loc[p].now)
       IN  IF r.error = "none"
             THEN /\ tx' = [tx EXCEPT ![p] =
                              TxAfterWrite(p, Key(req[p].item), r.tbl)]
                  /\ loc' = [loc EXCEPT ![p] =
                               [now |-> loc[p].now,
                                overlaps |-> loc[p].overlaps,
                                before |-> r.before, record |-> r.row,
                                created |-> r.created]]
                  /\ pc' = [pc EXCEPT ![p] = "upsert_commit"]
                  /\ resp' = resp
             ELSE /\ tx' = [tx EXCEPT ![p] = NoTx]
                  /\ loc' = loc
                  /\ pc' = [pc EXCEPT ![p] = "done"]
                  /\ resp' = [resp EXCEPT ![p] =
                                [status |-> 500, error |-> r.error]]
    /\ next_id' = next_id + 1
    /\ UNCHANGED <<clock, indexes, saved_searches, search_log, req, nops,
                   nfaults>>

\* db.execute(stmt) raises: the exception leaves the handler, the session is
\* closed and its transaction rolled back.
UpsertExecFails(p) ==
    /\ pc[p] = "upsert_exec"
    /\ nfaults < MaxFaults
    /\ nfaults' = nfaults + 1
    /\ tx' = [tx EXCEPT ![p] = NoTx]
    /\ pc' = [pc EXCEPT ![p] = "done"]
    /\ resp' = [resp EXCEPT ![p] = [status |-> 500, error |-> "db_error"]]
    /\ UNCHANGED <<clock, indexes, saved_searches, search_log, next_id, req,
                   loc, nops>>

\* db.commit(); return record
UpsertCommit(p) ==
    /\ pc[p] = "upsert_commit"
    /\ indexes' = View(p)
    /\ tx' = [tx EXCEPT ![p] = NoTx]
    /\ pc' = [pc EXCEPT ![p] = "done"]
    /\ resp' = [resp EXCEPT ![p] = [status |-> 201, record |-> loc[p].record]]
    /\ UNCHANGED <<clock, saved_searches, search_log, next_id, req, loc, nops,
                   nfaults>>

\* ---------------------------------------------------------------- bulk_index

\* An entry of the errors list: f"{item.source_app}:{item.record_id} - {exc}".
ErrorEntry(item, exc) ==
    [source_app |-> item.source_app, record_id |-> item.record_id,
     exc |-> exc]

\* After item i of the batch: the next item's _upsert_index, or db.commit().
AfterItem(p) ==
    IF loc[p].i < Len(req[p].items) THEN "bulk_now" ELSE "bulk_commit"

\* POST /indexes/bulk: the body is validated as a whole, the accumulators are
\* reset, and _upsert_index of the first item reads the clock.
BeginBulk(p, items) ==
    /\ CanBegin(p)
    /\ nops' = nops + 1
    /\ req' = [req EXCEPT ![p] =
                 [op |-> "bulk", n |-> nops + 1, items |-> items]]
    /\ IF BulkIndexRequestValid(items)
         THEN /\ pc' = [pc EXCEPT ![p] = "bulk_exec"]
              /\ loc' = [loc EXCEPT ![p] =
                           [now |-> clock, i |-> 1, created |-> 0,
                            updated |-> 0, errors |-> <<>>, done |-> <<>>]]
              /\ resp' = [resp EXCEPT ![p] = NoResp]
         ELSE /\ pc' = [pc EXCEPT ![p] = "done"]
              /\ loc' = [loc EXCEPT ![p] = NoLoc]
              /\ resp' = [resp EXCEPT ![p] = [status |-> 422]]
    /\ UNCHANGED <<clock, indexes, saved_searches, search_log, next_id, tx,
                   nfaults>>

\* The loop body for item i when its statement succeeds: created or updated
\* is counted.  (done keeps, per item, what _upsert_index saw and returned.)
BulkExec(p) ==
    /\ pc[p] = "bulk_exec"
    /\ ~tx[p].failed
    /\ ~Blocked(p, Key(req[p].items[loc[p].i]))
    /\ LET item == req[p].items[loc[p].i]
           r == UpsertIndex(p, item, loc[p].now)
       IN  IF r.error = "none"
             THEN /\ tx' = [tx EXCEPT ![p] = TxAfterWrite(p, Key(item), r.tbl)]
                  /\ loc' = [loc EXCEPT
                       ![p].created = @ + (IF r.created THEN 1 ELSE 0),
                       ![p].updated = @ + (IF r.created THEN 0 ELSE 1),
                       ![p].done = Append(@, [i |-> loc[p].i,
                                              before |-> r.before,
                                              record |-> r.row,
                                              created |-> r.created])]
             ELSE /\ tx' = [tx EXCEPT ![p].active = TRUE, ![p].failed = TRUE,
                                      ![p].start = TxNow(p)]
                  /\ loc' = [loc EXCEPT
                       ![p].errors = Append(@, ErrorEntry(item, r.error))]
    /\ next_id' = next_id + 1
    /\ pc' = [pc EXCEPT ![p] = AfterItem(p)]
    /\ UNCHANGED <<clock, indexes, saved_searches, search_log, req, resp,
                   nops, nfaults>>

\* The loop body for item i when db.execute raises: "client" before the
\* statement reaches the server (the transaction stays usable), "server" in
\* the server (the transaction is aborted and keeps its locks).  The except
\* clause records the item and the loop goes on.
BulkExecFails(p, where) ==
    /\ pc[p] = "bulk_exec"
    /\ ~tx[p].failed
    /\ nfaults < MaxFaults
    /\ nfaults' = nfaults + 1
    /\ tx' = IF where = "server"
               THEN [tx EXCEPT ![p].active = TRUE, ![p].failed = TRUE,
                               ![p].start = TxNow(p)]
               ELSE tx
    /\ loc' = [loc EXCEPT
         ![p].errors = Append(@, ErrorEntry(req[p].items[loc[p].i],
                                            "db_error"))]
    /\ pc' = [pc EXCEPT ![p] = AfterItem(p)]
    /\ UNCHANGED <<clock, indexes, saved_searches, search_log, next_id, req,
                   resp, nops>>

\* The loop body for item i in an aborted transaction: the server refuses
\* every statement until the transaction ends.
BulkExecInFailedTx(p) ==
    /\ pc[p] = "bulk_exec"
    /\ tx[p].failed
    /\ loc' = [loc EXCEPT
         ![p].errors = Append(@, ErrorEntry(req[p].items[loc[p].i],
                                            "in_failed_transaction"))]
    /\ pc' = [pc EXCEPT ![p] = AfterItem(p)]
    /\ UNCHANGED <<clock, indexes, saved_searches, search_log, next_id, req,
                   tx, resp, nops, nfaults>>

\* p waits for a key that o has written.
WaitsFor(p, o) ==
    /\ pc[p] = "bulk_exec"
    /\ ~tx[p].failed
    /\ Key(req[p].items[loc[p].i]) \in tx[o].keys

\* The loop body for item i when the statement waits for a transaction that
\* waits for this one: the server's deadlock detector makes the statement of
\* one of the two fail, which aborts its transaction.
BulkExecDeadlock(p) ==
    /\ \E o \in Procs \ {p} : WaitsFor(p, o) /\ WaitsFor(o, p)
    /\ tx' = [tx EXCEPT ![p].failed = TRUE]
    /\ loc' = [loc EXCEPT
         ![p].errors = Append(@, ErrorEntry(req[p].items[loc[p].i],
                                            "deadlock_detected"))]
    /\ pc' = [pc EXCEPT ![p] = AfterItem(p)]
    /\ UNCHANGED <<clock, indexes, saved_searches, search_log, next_id, req,
                   resp, nops, nfaults>>

\* _upsert_index of the next item reads the clock.
BulkNow(p) ==
    /\ pc[p] = "bulk_now"
    /\ loc' = [loc EXCEPT ![p].now = clock, ![p].i = @ + 1]
    /\ pc' = [pc EXCEPT ![p] = "bulk_exec"]
    /\ UNCHANGED <<clock, indexes, saved_searches, search_log, next_id, req,
                   tx, resp, nops, nfaults>>

\* db.commit() after the loop (COMMIT of an aborted transaction rolls it
\* back and raises nothing), then the response.
BulkCommit(p) ==
    /\ pc[p] = "bulk_commit"
    /\ indexes' = IF tx[p].failed THEN indexes ELSE View(p)
    /\ tx' = [tx EXCEPT ![p] = NoTx]
    /\ pc' = [pc EXCEPT ![p] = "done"]
    /\ resp' = [resp EXCEPT ![p] =
                  [status |-> 200, created |-> loc[p].created,
                   updated |-> loc[p].updated, errors |-> loc[p].errors]]
    /\ UNCHANGED <<clock, saved_searches, search_log, next_id, req, loc, nops,
                   nfaults>>

\* -------------------------------------------------------------- delete_index

\* Mutant: the DELETE without its filter, removing every row.
DeleteExecWithoutFilter(p, k) ==
    /\ CanBegin(p)
    /\ \A r \in indexes : ~Blocked(p, Key(r))
    /\ nops' = nops + 1
    /\ req' = [req EXCEPT ![p] =
                 [op |-> "delete", n |-> nops + 1, key |-> k]]
    /\ loc' = [loc EXCEPT ![p] =
                 [now |-> 0, deleted |-> Cardinality(View(p))]]
    /\ tx' = [tx EXCEPT ![p] =
                [active |-> TRUE, failed |-> FALSE, start |-> clock,
                 keys |-> {Key(r) : r \in View(p)}, rows |-> {}]]
    /\ pc' = [pc EXCEPT ![p] = "delete_commit"]
    /\ resp' = [resp EXCEPT ![p] = NoResp]
    /\ UNCHANGED <<clock, indexes, saved_searches, search_log, next_id,
                   nfaults>>

\* DELETE /indexes: the DELETE statement.  It waits only for a committed row
\* that another transaction has written; a row it cannot see it leaves alone.
DeleteExec(p, k) ==
    /\ CanBegin(p)
    /\ ~(RowsOf(indexes, k) # {} /\ Blocked(p, k))
    /\ nops' = nops + 1
    /\ req' = [req EXCEPT ![p] =
                 [op |-> "delete", n |-> nops + 1, key |-> k]]
    /\ loc' = [loc EXCEPT ![p] =
                 [now |-> 0, deleted |-> Cardinality(RowsOf(View(p), k))]]
    /\ tx' = [tx EXCEPT ![p] =
                IF RowsOf(View(p), k) = {}
                  THEN [NoTx EXCEPT !.active = TRUE, !.start = clock]
                  ELSE TxAfterWrite(p, k, View(p) \ RowsOf(View(p), k))]
    /\ pc' = [pc EXCEPT ![p] = "delete_commit"]
    /\ resp' = [resp EXCEPT ![p] = NoResp]
    /\ UNCHANGED <<clock, indexes, saved_searches, search_log, next_id,
                   nfaults>>

\* Mutant: delete_index without the not-found check.
DeleteCommitWithoutNotFound(p) ==
    /\ pc[p] = "delete_commit"
    /\ indexes' = View(p)
    /\ tx' = [tx EXCEPT ![p] = NoTx]
    /\ pc' = [pc EXCEPT ![p] = "done"]
    /\ resp' = [resp EXCEPT ![p] = [status |-> 204]]
    /\ UNCHANGED <<clock, saved_searches, search_log, next_id, req, loc, nops,
                   nfaults>>

\* db.commit(), then 404 if nothing was deleted.
DeleteCommit(p) ==
    /\ pc[p] = "delete_commit"
    /\ indexes' = View(p)
    /\ tx' = [tx EXCEPT ![p] = NoTx]
    /\ pc' = [pc EXCEPT ![p] = "done"]
    /\ resp' = [resp EXCEPT ![p] =
                  [status |-> IF loc[p].deleted = 0 THEN 404 ELSE 204]]
    /\ UNCHANGED <<clock, saved_searches, search_log, next_id, req, loc, nops,
                   nfaults>>

\* ------------------------------------------------------- lifespan / run_seed

\* A (re)start: lifespan creates the tables if missing and replaces the
\* triggers in one transaction, none of which changes the store; then
\* run_seed counts the rows of indexes.
SeedCheck(p) ==
    /\ CanBegin(p)
    /\ nops' = nops + 1
    /\ req' = [req EXCEPT ![p] = [op |-> "lifespan", n |-> nops + 1]]
    /\ loc' = [loc EXCEPT ![p] = [now |-> 0]]
    /\ resp' = [resp EXCEPT ![p] = NoResp]
    /\ pc' = [pc EXCEPT ![p] =
                IF Cardinality(indexes) > 0 THEN "done" ELSE "seed_insert"]
    /\ UNCHANGED <<clock, indexes, saved_searches, search_log, next_id, tx,
                   nfaults>>

\* The table after the plain INSERTs of the seed rows, in list order, and the
\* first error.
RECURSIVE SeedInserts(_, _, _)
SeedInserts(tbl, i, id) ==
    IF i > Len(SEED_INDEXES) THEN [tbl |-> tbl, error |-> "none"]
    ELSE LET r == PgInsert(tbl, NewRow(SEED_INDEXES[i], id, 0, 0, 0), FALSE, 0)
         IN  IF r.error # "none" THEN [tbl |-> tbl, error |-> r.error]
             ELSE SeedInserts(r.tbl, i + 1, id + 1)

\* run_seed's inserts and db.commit(): every seed row and saved search with
\* _NOW, the time the module was imported; a unique violation leaves
\* run_seed as an exception and db.close() rolls everything back.
SeedInsert(p) ==
    /\ pc[p] = "seed_insert"
    /\ \A i \in 1..Len(SEED_INDEXES) : ~Blocked(p, Key(SEED_INDEXES[i]))
    /\ LET r == SeedInserts(indexes, 1, next_id)
       IN  IF r.error = "none"
             THEN /\ indexes' = r.tbl
                  /\ saved_searches' = saved_searches \o SEED_SAVED_SEARCHES
                  /\ resp' = [resp EXCEPT ![p] = [status |-> 0]]
             ELSE /\ UNCHANGED <<indexes, saved_searches>>
                  /\ resp' = [resp EXCEPT ![p] =
                                [status |-> 500, error |-> r.error]]
    /\ next_id' = next_id + Len(SEED_INDEXES)
    /\ pc' = [pc EXCEPT ![p] = "done"]
    /\ UNCHANGED <<clock, search_log, req, loc, tx, nops, nfaults>>

\* ------------------------------------------------------------------- auth

\* _EXPECTED_TOKEN, and the values the GDEV_API_TOKEN header can carry: none
\* (auto_error=False gives None), the empty text, another text, the token.
EXPECTED_TOKEN == <<"t">>
ApiKeys == {NULL, <<>>, <<"x">>, EXPECTED_TOKEN}

\* verify_token: not api_key or api_key != _EXPECTED_TOKEN raises 401
VerifyToken(api_key) ==
    ~(api_key = NULL \/ api_key = <<>> \/ api_key # EXPECTED_TOKEN)

\* The routes of the core operations, each declaring Depends(verify_token).
CoreRoutes == {"index", "bulk", "delete", "list", "search", "suggestions"}

\* Mutant: delete_index without the dependency, the handler running (here
\* on the seed record's key) before the token is looked at.
UnauthorizedAfterHandler(p, route, api_key) ==
    /\ CanBegin(p)
    /\ ~VerifyToken(api_key)
    /\ nops' = nops + 1
    /\ req' = [req EXCEPT ![p] = [op |-> "unauthorized", n |-> nops + 1,
                                  route |-> route, api_key |-> api_key]]
    /\ loc' = [loc EXCEPT ![p] = NoLoc]
    /\ resp' = [resp EXCEPT ![p] = [status |-> 401]]
    /\ pc' = [pc EXCEPT ![p] = "done"]
    /\ indexes' = IF route = "delete"
                    THEN {r \in indexes : Key(r) # Key(ItemC)}
                    ELSE indexes
    /\ UNCHANGED <<clock, saved_searches, search_log, next_id, tx, nfaults>>

\* A request to a core route whose token verify_token refuses: the
\* dependency raises HTTPException(401) and the handler is never called.
Unauthorized(p, route, api_key) ==
    /\ CanBegin(p)
    /\ ~VerifyToken(api_key)
    /\ nops' = nops + 1
    /\ req' = [req EXCEPT ![p] = [op |-> "unauthorized", n |-> nops + 1,
                                  route |-> route, api_key |-> api_key]]
    /\ loc' = [loc EXCEPT ![p] = NoLoc]
    /\ resp' = [resp EXCEPT ![p] = [status |-> 401]]
    /\ pc' = [pc EXCEPT ![p] = "done"]
    /\ UNCHANGED <<clock, indexes, saved_searches, search_log, next_id, tx,
                   nfaults>>

\* ----------------------------------------------------------- query inputs

\* Characters in code-point order, for comparing texts.
CodePoints ==
    <<" ", "%", ",", "1", "A", "B", "C", "\\", "_", "a", "b", "c", "d", "e",
      "g", "h", "i", "k", "l", "m", "n", "o", "p", "r", "s", "t", "u", "v",
      "x", "y">>

CharCode(c) == CHOOSE i \in 1..Len(CodePoints) : CodePoints[i] = c

\* a < b, character by character.
TextLess(a, b) ==
    \E i \in 1..(Len(a) + 1) :
        /\ i <= Len(b)
        /\ \A j \in 1..(i - 1) : j <= Len(a) /\ a[j] = b[j]
        /\ (i > Len(a) \/ CharCode(a[i]) < CharCode(b[i]))

\* str.strip()
RECURSIVE Strip(_)
Strip(t) ==
    IF t = <<>> THEN t
    ELSE IF Head(t) = " " THEN Strip(Tail(t))
    ELSE IF t[Len(t)] = " " THEN Strip(SubSeq(t, 1, Len(t) - 1))
    ELSE t

\* str.split(",")
RECURSIVE SplitFrom(_, _, _)
SplitFrom(t, i, cur) ==
    IF i > Len(t) THEN <<cur>>
    ELSE IF t[i] = "," THEN <<cur>> \o SplitFrom(t, i + 1, <<>>)
    ELSE SplitFrom(t, i + 1, Append(cur, t[i]))

SplitComma(t) == SplitFrom(t, 1, <<>>)

\* None for a list of texts.
NoList == <<NULL>>

\* [a.strip() for a in app.split(",")] if app else None
ParseFilter(param) ==
    IF param = NULL \/ param = <<>> THEN NoList
    ELSE LET parts == SplitComma(param)
         IN  [i \in 1..Len(parts) |-> Strip(parts[i])]

SeqToSet(sq) == {sq[i] : i \in 1..Len(sq)}

MaxLogQueryLen == 1000
MaxLogUserLen == 255
MaxSearchLimit == 100
MaxSuggestLimit == 50
MaxListLimit == 200

\* A user identifier one character longer than search_log.user holds.
LongUser == [i \in 1..(MaxLogUserLen + 1) |-> "u"]

\* GET /search requests: one default request and requests that vary one
\* parameter of it.
DefaultSearch ==
    [q |-> <<"a">>, app |-> NULL, type |-> NULL, limit |-> 2, offset |-> 0,
     user |-> NULL]
SearchRequests ==
    {[DefaultSearch EXCEPT !.q = q] : q \in QueryTexts}
    \cup {[DefaultSearch EXCEPT !.app = a] :
            a \in {Crm, Crm \o <<",", " ">> \o Helpdesk}}
    \cup {[DefaultSearch EXCEPT !.type = Ticket]}
    \cup {[DefaultSearch EXCEPT !.limit = 1, !.offset = o] : o \in {0, 1}}
    \cup {[DefaultSearch EXCEPT !.user = u] : u \in {<<"u">>, LongUser}}

\* GET /search/suggestions requests.
SuggestRequests ==
    {[q |-> q, limit |-> l] : q \in {<<"a">>, <<"_">>}, l \in {1, 2}}

\* GET /indexes requests.
ListRequests ==
    {[source_app |-> a, source_type |-> NULL, limit |-> l, offset |-> o] :
        a \in {NULL, Crm}, l \in {1, 2}, o \in {0, 1}}

\* ------------------------------------------------------------ unified_search

\* ts_rank_cd(search_vector, query) in tenths: every occurrence of the
\* query's lexeme is a cover of weight 0.1.  (The model's queries have at
\* most one lexeme.)
TsRankCd(vec, query) ==
    IF ~TsMatch(vec, query) THEN 0
    ELSE Cardinality({e \in vec : e[1] \in query})

\* Mutant: base_q without the source_app and source_type filters.
SearchMatchesWithoutFilters(r, q, apps, types) ==
    \/ TsMatch(r.search_vector, PlaintoTsquery(q))
    \/ TitleILike(r.title, q)

\* The WHERE clause of base_q.
SearchMatches(r, q, apps, types) ==
    /\ \/ TsMatch(r.search_vector, PlaintoTsquery(q))
       \/ TitleILike(r.title, q)
    /\ (apps # NoList => r.source_app \in SeqToSet(apps))
    /\ (types # NoList => r.source_type \in SeqToSet(types))

SearchMatched(tbl, q, apps, types) ==
    {r \in tbl : SearchMatches(r, q, apps, types)}

\* The sequences that hold each element of S once.
SeqsOf(S) ==
    {f \in [1..Cardinality(S) -> S] :
        \A i, j \in 1..Cardinality(S) : i # j => f[i] # f[j]}

\* Mutant: the rows fetched without ORDER BY.
SearchOrdersWithoutOrderBy(rows, q) == SeqsOf(rows)

\* ORDER BY rank DESC, title: every order of the matched rows the sort keys
\* allow.
SearchOrders(rows, q) ==
    LET rank(r) == TsRankCd(r.search_vector, PlaintoTsquery(q))
    IN  {f \in SeqsOf(rows) :
            \A i, j \in 1..Len(f) :
                i < j => \/ rank(f[i]) > rank(f[j])
                         \/ /\ rank(f[i]) = rank(f[j])
                            /\ ~TextLess(f[j].title, f[i].title)}

\* OFFSET offset LIMIT limit
Page(f, offset, limit) ==
    SubSeq(f, offset + 1,
           IF offset + limit < Len(f) THEN offset + limit ELSE Len(f))

\* A SearchResult: the row's columns but search_vector, and the rank.
SearchResult(r, q) ==
    [id |-> r.id, name |-> r.name, source_app |-> r.source_app,
     source_type |-> r.source_type, record_id |-> r.record_id,
     title |-> r.title, content |-> r.content, tags |-> r.tags,
     url |-> r.url, last_synced |-> r.last_synced,
     created_at |-> r.created_at, updated_at |-> r.updated_at,
     rank |-> TsRankCd(r.search_vector, PlaintoTsquery(q))]

\* The SearchLog row the handler adds.
SearchLogRow(q, apps, types, total, user) ==
    [query |-> q, filters |-> [app |-> apps, type |-> types],
     results_count |-> total, user |-> user]

\* search_log accepts the row: query is String(1000), user String(255).
SearchLogAccepts(row) ==
    /\ Len(row.query) <= MaxLogQueryLen
    /\ (row.user = NULL \/ Len(row.user) <= MaxLogUserLen)

\* GET /search: the filters are parsed and base_q.count() runs.
SearchCount(p, r) ==
    /\ CanBegin(p)
    /\ nops' = nops + 1
    /\ req' = [req EXCEPT ![p] = [op |-> "search", n |-> nops + 1] @@ r]
    /\ resp' = [resp EXCEPT ![p] = NoResp]
    /\ IF r.limit \in 1..MaxSearchLimit /\ r.offset >= 0
         THEN /\ loc' = [loc EXCEPT ![p] =
                   [now |-> 0, apps |-> ParseFilter(r.app),
                    types |-> ParseFilter(r.type),
                    total |-> Cardinality(SearchMatched(indexes, r.q,
                                 ParseFilter(r.app), ParseFilter(r.type)))]]
              /\ pc' = [pc EXCEPT ![p] = "search_rows"]
         ELSE /\ loc' = [loc EXCEPT ![p] = NoLoc]
              /\ pc' = [pc EXCEPT ![p] = "done"]
    /\ UNCHANGED <<clock, indexes, saved_searches, search_log, next_id, tx,
                   nfaults>>

\* base_q.order_by(...).offset(offset).limit(limit).all() and the results
\* built from its rows.
SearchRows(p) ==
    /\ pc[p] = "search_rows"
    /\ \E f \in SearchOrders(SearchMatched(indexes, req[p].q, loc[p].apps,
                                           loc[p].types), req[p].q) :
        LET page == Page(f, req[p].offset, req[p].limit)
        IN  loc' = [loc EXCEPT ![p] = loc[p] @@
                [results |-> [i \in 1..Len(page) |->
                                SearchResult(page[i], req[p].q)]]]
    /\ pc' = [pc EXCEPT ![p] = "search_log"]
    /\ UNCHANGED <<clock, indexes, saved_searches, search_log, next_id, req,
                   tx, resp, nops, nfaults>>

\* db.add(SearchLog(...)); db.commit(); return SearchResponse(...).  When
\* the INSERT is refused, commit raises and the handler ends in an error.
SearchLogCommit(p) ==
    /\ pc[p] = "search_log"
    /\ LET row == SearchLogRow(req[p].q, loc[p].apps, loc[p].types,
                               loc[p].total, req[p].user)
       IN  IF SearchLogAccepts(row)
             THEN /\ search_log' = Append(search_log, row)
                  /\ resp' = [resp EXCEPT ![p] =
                        [status |-> 200, query |-> req[p].q,
                         total |-> loc[p].total, limit |-> req[p].limit,
                         offset |-> req[p].offset,
                         results |-> loc[p].results]]
             ELSE /\ search_log' = search_log
                  /\ resp' = [resp EXCEPT ![p] =
                        [status |-> 500, error |-> "db_error"]]
    /\ pc' = [pc EXCEPT ![p] = "done"]
    /\ UNCHANGED <<clock, indexes, saved_searches, next_id, req, loc, tx,
                   nops, nfaults>>

\* -------------------------------------------------------- search_suggestions

\* SELECT DISTINCT title ... WHERE title ILIKE ... ORDER BY title LIMIT limit
SuggestTitles(tbl, q) == {r.title : r \in {x \in tbl : TitleILike(x.title, q)}}

TitleOrders(titles) ==
    {f \in SeqsOf(titles) :
        \A i, j \in 1..Len(f) : i < j => TextLess(f[i], f[j])}

\* GET /search/suggestions
SearchSuggestions(p, r) ==
    /\ CanBegin(p)
    /\ nops' = nops + 1
    /\ req' = [req EXCEPT ![p] = [op |-> "suggestions", n |-> nops + 1] @@ r]
    /\ loc' = [loc EXCEPT ![p] = NoLoc]
    /\ pc' = [pc EXCEPT ![p] = "done"]
    /\ IF r.limit \in 1..MaxSuggestLimit
         THEN \E f \in TitleOrders(SuggestTitles(indexes, r.q)) :
                resp' = [resp EXCEPT ![p] =
                    [status |-> 200, query |-> r.q,
                     suggestions |-> Page(f, 0, r.limit)]]
         ELSE resp' = [resp EXCEPT ![p] = [status |-> 422]]
    /\ UNCHANGED <<clock, indexes, saved_searches, search_log, next_id, tx,
                   nfaults>>

\* -------------------------------------------------------------- list_indexes

ListMatched(tbl, r) ==
    {x \in tbl :
        /\ (r.source_app # NULL /\ r.source_app # <<>>
              => x.source_app = r.source_app)
        /\ (r.source_type # NULL /\ r.source_type # <<>>
              => x.source_type = r.source_type)}

\* Mutant: the listed rows fetched without ORDER BY.
ListOrdersWithoutOrderBy(rows) == SeqsOf(rows)

\* ORDER BY updated_at DESC
ListOrders(rows) ==
    {f \in SeqsOf(rows) :
        \A i, j \in 1..Len(f) : i < j => f[i].updated_at >= f[j].updated_at}

\* GET /indexes: q.count()
ListCount(p, r) ==
    /\ CanBegin(p)
    /\ nops' = nops + 1
    /\ req' = [req EXCEPT ![p] = [op |-> "list", n |-> nops + 1] @@ r]
    /\ resp' = [resp EXCEPT ![p] = NoResp]
    /\ IF r.limit \in 1..MaxListLimit /\ r.offset >= 0
         THEN /\ loc' = [loc EXCEPT ![p] =
                   [now |-> 0,
                    total |-> Cardinality(ListMatched(indexes, r))]]
              /\ pc' = [pc EXCEPT ![p] = "list_items"]
         ELSE /\ loc' = [loc EXCEPT ![p] = NoLoc]
              /\ pc' = [pc EXCEPT ![p] = "done"]
    /\ UNCHANGED <<clock, indexes, saved_searches, search_log, next_id, tx,
                   nfaults>>

\* q.order_by(...).offset(offset).limit(limit).all() and the response
ListItems(p) ==
    /\ pc[p] = "list_items"
    /\ \E f \in ListOrders(ListMatched(indexes, req[p])) :
        resp' = [resp EXCEPT ![p] =
            [status |-> 200, total |-> loc[p].total,
             items |-> Page(f, req[p].offset, req[p].limit)]]
    /\ pc' = [pc EXCEPT ![p] = "done"]
    /\ UNCHANGED <<clock, indexes, saved_searches, search_log, next_id, req,
                   loc, tx, nops, nfaults>>

\* ------------------------------------------------------------ specifications

\* Ingestion: the handlers that write the Record Store, and restarts.
Next ==
    \/ Tick
    \/ \E p \in Procs :
        \/ \E item \in Payloads : BeginUpsert(p, item)
        \/ UpsertExec(p)
        \/ UpsertExecFails(p)
        \/ UpsertCommit(p)
        \/ \E items \in Batches : BeginBulk(p, items)
        \/ BulkExec(p)
        \/ \E where \in {"client", "server"} : BulkExecFails(p, where)
        \/ BulkExecDeadlock(p)
        \/ BulkExecInFailedTx(p)
        \/ BulkNow(p)
        \/ BulkCommit(p)
        \/ \E k \in Keys : DeleteExec(p, k)
        \/ DeleteCommit(p)
        \/ SeedCheck(p)
        \/ SeedInsert(p)
        \/ \E route \in CoreRoutes, api_key \in ApiKeys :
              Unauthorized(p, route, api_key)

Spec == Init /\ [][Next]_vars

\* Queries: the handlers that read the Record Store, beside single-item
\* ingestion and deletion.
NextQuery ==
    \/ Tick
    \/ \E p \in Procs :
        \/ \E item \in QueryItems : BeginUpsert(p, item)
        \/ UpsertExec(p)
        \/ UpsertCommit(p)
        \/ \E k \in Keys : DeleteExec(p, k)
        \/ DeleteCommit(p)
        \/ \E r \in SearchRequests : SearchCount(p, r)
        \/ SearchRows(p)
        \/ SearchLogCommit(p)
        \/ \E r \in SuggestRequests : SearchSuggestions(p, r)
        \/ \E r \in ListRequests : ListCount(p, r)
        \/ ListItems(p)

SpecQuery == Init /\ [][NextQuery]_vars

\* Paging: a client pages through the matches of one query while nothing
\* writes the store.  The store holds the seed record and one ingested
\* record, either with the seed record's title (ItemA) or another (ItemB).
PageStores ==
    { SeedRows(0) \cup {BeforeInsert(NewRow(it, Len(SEED_INDEXES) + 1, 0, 0, 0))}
        : it \in {ItemA, ItemB} }

\* GET /search requests of a client that pages with limit 1, or asks for
\* everything at once.
PageRequests ==
    {[DefaultSearch EXCEPT !.q = q, !.limit = 1, !.offset = o] :
        q \in {<<"a">>, <<"b", "c">>}, o \in {0, 1}}
    \cup {[DefaultSearch EXCEPT !.q = q] : q \in {<<"a">>, <<"b", "c">>}}

InitPages ==
    /\ clock = 0
    /\ indexes \in PageStores
    /\ saved_searches = SEED_SAVED_SEARCHES
    /\ search_log = <<>>
    /\ next_id = Len(SEED_INDEXES) + 2
    /\ pc = [p \in Procs |-> "idle"]
    /\ req = [p \in Procs |-> NoReq]
    /\ loc = [p \in Procs |-> NoLoc]
    /\ tx = [p \in Procs |-> NoTx]
    /\ resp = [p \in Procs |-> NoResp]
    /\ nops = 0
    /\ nfaults = 0

NextPages ==
    \E p \in Procs :
        \/ \E r \in PageRequests : SearchCount(p, r)
        \/ SearchRows(p)
        \/ SearchLogCommit(p)

SpecPages == InitPages /\ [][NextPages]_vars

\* ------------------------------------------------------------------ claims

\* The handlers whose single upsert has run its statement.
UpsertRan(p) ==
    /\ req[p].op = "upsert"
    /\ \/ pc[p] = "upsert_commit"
       \/ pc[p] = "done" /\ resp[p].status = 201

\* C1: for every upsert call (a single-item ingestion or an item of a bulk
\* batch), the created flag _upsert_index returns is true exactly when no row
\* with the item's natural key existed immediately before the call.
C1_CreatedIffNoRowBefore ==
    \A p \in Procs :
        /\ UpsertRan(p) => (loc[p].created <=> loc[p].before = NoRow)
        /\ req[p].op = "bulk" /\ resp[p].status # 422 =>
             \A i \in 1..Len(loc[p].done) :
                 loc[p].done[i].created <=> loc[p].done[i].before = NoRow

\* C2: of two concurrent upserts to one natural key that did not exist
\* before, exactly one observes created = true.
C2_ExactlyOneCreatedOfTwoConcurrent ==
    \A p, q \in Procs :
        /\ p # q
        /\ UpsertRan(p) /\ UpsertRan(q)
        /\ Key(req[p].item) = Key(req[q].item)
        /\ req[p].n \in loc[q].overlaps
        /\ (loc[p].before = NoRow \/ loc[q].before = NoRow)
        => (loc[p].created # loc[q].created)

\* C3: a second upsert with identical content returns created = false,
\* leaves every stored field of the record but last_synced and updated_at
\* unchanged, and the store still holds exactly one row for the key.
C3_RepeatedUpsertIdempotent ==
    \A p, q \in Procs :
        /\ p # q
        /\ req[p].op = "upsert" /\ pc[p] = "done" /\ resp[p].status = 201
        /\ UpsertRan(q)
        /\ req[q].item = req[p].item
        /\ loc[q].before = resp[p].record
        => /\ ~loc[q].created
           /\ [loc[q].record EXCEPT !.last_synced = 0, !.updated_at = 0]
                = [loc[q].before EXCEPT !.last_synced = 0, !.updated_at = 0]
           /\ Cardinality(RowsOf(View(q), Key(req[q].item))) = 1

\* C4: the Record Store holds at most one row per natural key, and an
\* upsert (single or in a batch) never surfaces a duplicate-key failure.
C4_OneRowPerKeyNoDuplicateFailure ==
    /\ \A r1, r2 \in indexes : Key(r1) = Key(r2) => r1 = r2
    /\ \A p \in Procs :
        /\ req[p].op = "upsert" /\ pc[p] = "done" /\ resp[p].status = 500
             => resp[p].error # "unique_violation"
        /\ req[p].op = "bulk" /\ resp[p].status # 422 =>
             \A i \in 1..Len(loc[p].errors) :
                 loc[p].errors[i].exc # "unique_violation"

\* Two upserts of one key that overlapped have both returned, and the key's
\* row is in the store.
C4_Witness ==
    \E p, q \in Procs :
        /\ p # q
        /\ req[p].op = "upsert" /\ pc[p] = "done" /\ resp[p].status = 201
        /\ req[q].op = "upsert" /\ pc[q] = "done" /\ resp[q].status = 201
        /\ Key(req[p].item) = Key(req[q].item)
        /\ req[p].n \in loc[q].overlaps
        /\ resp[q].record \in indexes

\* The derived search representation of a record's current fields.
DerivedSearchRepresentation(r) ==
    ToTsvector(Coalesce(r.name) \o <<" ">> \o Coalesce(r.title) \o <<" ">>
               \o Coalesce(r.content) \o <<" ">> \o Coalesce(r.source_app)
               \o <<" ">> \o Coalesce(r.source_type))

\* C5: in every committed state of the Record Store, each record's search
\* representation is the derived function of its current name, title,
\* content, source_app and source_type.
C5_SearchRepresentationCurrent ==
    \A r \in indexes : r.search_vector = DerivedSearchRepresentation(r)

\* An upsert that changed the title and the content of an existing record
\* has been committed.
C5_Witness ==
    \E p \in Procs :
        /\ req[p].op = "upsert" /\ pc[p] = "done" /\ resp[p].status = 201
        /\ loc[p].before # NoRow
        /\ loc[p].before.title # resp[p].record.title
        /\ loc[p].before.content # resp[p].record.content
        /\ resp[p].record \in indexes

\* The entries of a batch's done list that are the last write of their key.
LastWrites(done) ==
    {i \in 1..Len(done) :
        \A j \in (i + 1)..Len(done) :
            Key(done[j].record) # Key(done[i].record)}

\* C6: bulk ingestion isolates a failing item: no other item of the batch
\* fails because of it, and when the call returns every item counted in
\* created or updated is in the store with the submitted values.
C6_BulkIsolatesFailingItem ==
    [][\A p \in Procs :
        pc[p] = "bulk_commit" /\ pc'[p] = "done" =>
            /\ \A i \in 1..Len(resp'[p].errors) :
                   resp'[p].errors[i].exc # "in_failed_transaction"
            /\ \A i \in LastWrites(loc[p].done) :
                   loc[p].done[i].record \in indexes']_vars

\* C7: a bulk batch with a malformed item is not rejected as a whole: the
\* malformed item is reported in errors, created + updated is the number of
\* valid items, and the valid items are in the store.
C7_MalformedItemIsolated ==
    \A p \in Procs :
        /\ req[p].op = "bulk" /\ pc[p] = "done"
        /\ ~BulkIndexRequestValid(req[p].items)
        => LET bad == {i \in 1..Len(req[p].items) :
                         ~IndexCreateValid(req[p].items[i])}
           IN  /\ resp[p].status = 200
               /\ \A i \in bad :
                    \E j \in 1..Len(resp[p].errors) :
                        /\ resp[p].errors[j].source_app
                             = req[p].items[i].source_app
                        /\ resp[p].errors[j].record_id
                             = req[p].items[i].record_id
               /\ resp[p].created + resp[p].updated
                    = Len(req[p].items) - Cardinality(bad)
               /\ \A i \in (1..Len(req[p].items)) \ bad :
                    RowsOf(indexes, Key(req[p].items[i])) # {}

\* C8: a search whose record query completed returns its results, also
\* when the search log refuses the entry.
C8_SearchReturnsDespiteLogFailure ==
    \A p \in Procs :
        /\ req[p].op = "search" /\ pc[p] = "done"
        /\ "results" \in DOMAIN loc[p]
        => /\ resp[p].status = 200
           /\ resp[p].results = loc[p].results

\* The step in which a search handler commits its log entry and answers.
SearchEnds(p) == pc[p] = "search_log" /\ pc'[p] = "done"

\* The log entry the claim describes for p's search.
ClaimedLogEntry(p, total) ==
    [query |-> req[p].q,
     filters |-> [app |-> ParseFilter(req[p].app),
                  type |-> ParseFilter(req[p].type)],
     results_count |-> total, user |-> req[p].user]

\* C9: every accepted search call appends exactly one entry with
\* q, the parsed filters, the total and the user, and nothing else changes
\* the log.
C9_EverySearchAppendsOneEntry ==
    [][/\ \A p \in Procs :
            SearchEnds(p) =>
                search_log' = Append(search_log,
                                     ClaimedLogEntry(p, loc[p].total))
       /\ search_log' # search_log => \E p \in Procs : SearchEnds(p)]_vars

\* The matched set the claim describes: full-text match or the title
\* containing q literally, within the filters.
ClaimedMatched(tbl, p) ==
    {r \in tbl :
        /\ \/ TsMatch(r.search_vector, PlaintoTsquery(req[p].q))
           \/ ContainsCI(r.title, req[p].q)
        /\ (loc[p].apps # NoList => r.source_app \in SeqToSet(loc[p].apps))
        /\ (loc[p].types # NoList
              => r.source_type \in SeqToSet(loc[p].types))}

\* C10: a record is in the matched set of a search exactly when its search
\* representation satisfies the full-text query of q or its title contains q
\* as a case-insensitive substring: the count and the page are taken from
\* that set.
C10_MatchedIffFullTextOrSubstring ==
    [][\A p \in Procs :
        /\ pc[p] = "search_rows" /\ pc'[p] = "search_log" =>
             /\ {x.id : x \in SeqToSet(loc'[p].results)}
                  \subseteq {r.id : r \in ClaimedMatched(indexes, p)}
             /\ Len(loc'[p].results)
                  = Len(Page([i \in 1..Cardinality(ClaimedMatched(indexes, p))
                                |-> i], req[p].offset, req[p].limit))
        /\ pc[p] # "search_rows" /\ pc'[p] = "search_rows" =>
             loc'[p].total = Cardinality(
                 {r \in indexes :
                    /\ \/ TsMatch(r.search_vector, PlaintoTsquery(req'[p].q))
                       \/ ContainsCI(r.title, req'[p].q)
                    /\ (loc'[p].apps # NoList
                          => r.source_app \in SeqToSet(loc'[p].apps))
                    /\ (loc'[p].types # NoList
                          => r.source_type \in SeqToSet(loc'[p].types))})
      ]_vars

\* The handlers whose search has fetched its page.
SearchFetched(p) ==
    /\ req[p].op = "search"
    /\ "results" \in DOMAIN loc[p]

\* The ids of the records on p's page.
PageIds(p) == {x.id : x \in SeqToSet(loc[p].results)}

\* C11: on an unchanging store, two searches with the same query and filters
\* report the same total; two consecutive pages share no record, and the
\* pages from offset 0 on that cover the total hold every matching record.
C11_PagesPartitionTheMatches ==
    \A p, q \in Procs :
        /\ p # q
        /\ SearchFetched(p) /\ SearchFetched(q)
        /\ req[p].q = req[q].q
        /\ req[p].app = req[q].app /\ req[p].type = req[q].type
        => /\ loc[p].total = loc[q].total
           /\ /\ req[p].limit = req[q].limit
              /\ req[q].offset = req[p].offset + req[p].limit
              => /\ PageIds(p) \cap PageIds(q) = {}
                 /\ req[p].offset = 0 /\ loc[p].total <= 2 * req[p].limit
                      => Cardinality(PageIds(p) \cup PageIds(q))
                           = loc[p].total

\* C12: the results of a search are in descending order of rank, results of
\* equal rank in ascending order of title, and a record that does not satisfy
\* the full-text query (matched through the title only) carries rank 0.
C12_RankDescendingThenTitle ==
    \A p \in Procs :
        SearchFetched(p) =>
            LET res == loc[p].results
            IN  /\ \A i, j \in 1..Len(res) :
                    i < j => /\ res[i].rank >= res[j].rank
                             /\ res[i].rank = res[j].rank
                                  => ~TextLess(res[j].title, res[i].title)
                /\ \A i \in 1..Len(res) :
                    ~TsMatch(DerivedSearchRepresentation(res[i]),
                             PlaintoTsquery(req[p].q))
                        => res[i].rank = 0

\* A search has returned a record of positive rank followed by a record
\* matched through its title only.
C12_Witness ==
    \E p \in Procs :
        /\ SearchFetched(p)
        /\ pc[p] = "done" /\ resp[p].status = 200
        /\ Len(resp[p].results) = 2
        /\ resp[p].results[1].rank > 0
        /\ resp[p].results[2].rank = 0

\* The set a comma-separated filter parameter names, its entries trimmed.
FilterSet(param) == {Strip(x) : x \in SeqToSet(SplitComma(param))}

\* A filter parameter was given.
FilterGiven(param) == param # NULL /\ param # <<>>

\* r passes the app and type filters of request rq.
WithinFilters(r, rq) ==
    /\ FilterGiven(rq.app) => r.source_app \in FilterSet(rq.app)
    /\ FilterGiven(rq.type) => r.source_type \in FilterSet(rq.type)

\* C13: a search with an app filter returns only records whose source_app is
\* in the comma-separated set (entries trimmed), with a type filter only
\* records whose source_type is in the set, and total counts the records
\* matching the text within the filters.
C13_FiltersRestrictResultsAndTotal ==
    [][\A p \in Procs :
        /\ pc[p] = "search_rows" /\ pc'[p] = "search_log" =>
             \A i \in 1..Len(loc'[p].results) :
                 WithinFilters(loc'[p].results[i], req[p])
        /\ pc[p] # "search_rows" /\ pc'[p] = "search_rows" =>
             loc'[p].total = Cardinality(
                 {r \in indexes :
                    /\ \/ TsMatch(r.search_vector, PlaintoTsquery(req'[p].q))
                       \/ TitleILike(r.title, req'[p].q)
                    /\ WithinFilters(r, req'[p])})
      ]_vars

\* A search with app=crm has returned a record while the store holds a
\* helpdesk record whose title matches the text.
C13_Witness ==
    \E p \in Procs :
        /\ req[p].op = "search" /\ pc[p] = "done" /\ resp[p].status = 200
        /\ req[p].app = Crm
        /\ resp[p].total = 1 /\ Len(resp[p].results) = 1
        /\ \E r \in indexes :
            r.source_app = Helpdesk /\ TitleILike(r.title, req[p].q)

\* C14: a search whose text matches an ingested record (its full-text query
\* is satisfied or q is in the title) returns it when the page holds every
\* record; a search returns only records in the store, and a delete that
\* succeeds leaves no row of the key; an upsert of a key that has no row
\* reports created and leaves the record in the store.
C14_IngestSearchDeleteRoundTrip ==
    [][\A p \in Procs :
        /\ pc[p] = "search_rows" /\ pc'[p] = "search_log" =>
             /\ {x.id : x \in SeqToSet(loc'[p].results)}
                  \subseteq {r.id : r \in indexes}
             /\ /\ req[p].offset = 0 /\ Cardinality(indexes) <= req[p].limit
                /\ ~FilterGiven(req[p].app) /\ ~FilterGiven(req[p].type)
                => \A r \in indexes :
                     \/ TsMatch(r.search_vector, PlaintoTsquery(req[p].q))
                     \/ ContainsCI(r.title, req[p].q)
                     => r.id \in {x.id : x \in SeqToSet(loc'[p].results)}
        /\ pc[p] = "delete_commit" /\ pc'[p] = "done"
           /\ resp'[p].status = 204 =>
             RowsOf(indexes', req[p].key) = {}
        /\ pc[p] = "upsert_exec" /\ pc'[p] = "upsert_commit"
           /\ loc'[p].before = NoRow =>
             loc'[p].created
        /\ pc[p] = "upsert_commit" /\ pc'[p] = "done" =>
             loc[p].record \in indexes'
      ]_vars

\* The row rec is the row old re-ingested in place with item at time now in
\* a transaction begun at txnow.
MutatedInPlace(old, rec, item, now, txnow) ==
    /\ rec.name = item.name /\ rec.source_type = item.source_type
    /\ rec.title = item.title /\ rec.content = item.content
    /\ rec.tags = item.tags /\ rec.url = item.url
    /\ rec.last_synced = now /\ rec.updated_at = txnow
    /\ rec.created_at = old.created_at /\ rec.id = old.id
    /\ rec.source_app = old.source_app /\ rec.record_id = old.record_id

\* C15: an upsert on an existing natural key (single or in a batch) leaves
\* the row with the submitted name, source_type, title, content, tags and
\* url, with last_synced and updated_at set by this call, and with the
\* created_at, source_app and record_id it had before.
C15_ReingestionMutatesInPlace ==
    [][\A p \in Procs :
        /\ pc[p] = "upsert_exec" /\ pc'[p] = "upsert_commit"
           /\ loc'[p].before # NoRow =>
             MutatedInPlace(loc'[p].before, loc'[p].record, req[p].item,
                            loc[p].now, tx'[p].start)
        /\ pc[p] = "bulk_exec" /\ Len(loc'[p].done) > Len(loc[p].done)
           /\ loc'[p].done[Len(loc'[p].done)].before # NoRow =>
             MutatedInPlace(loc'[p].done[Len(loc'[p].done)].before,
                            loc'[p].done[Len(loc'[p].done)].record,
                            req[p].items[loc[p].i], loc[p].now, tx'[p].start)
      ]_vars

\* A record created at an earlier time has been re-ingested with another
\* title, and the result is committed.
C15_Witness ==
    \E p \in Procs :
        /\ req[p].op = "upsert" /\ pc[p] = "done" /\ resp[p].status = 201
        /\ loc[p].before # NoRow
        /\ loc[p].before.created_at < resp[p].record.last_synced
        /\ loc[p].before.title # resp[p].record.title
        /\ resp[p].record.created_at = loc[p].before.created_at
        /\ resp[p].record \in indexes

\* The row r holds the fields of the one submission item, and the search
\* representation derived from them.
FromSubmission(r, item) ==
    /\ Key(r) = Key(item)
    /\ r.name = item.name /\ r.source_type = item.source_type
    /\ r.title = item.title /\ r.content = item.content
    /\ r.tags = item.tags /\ r.url = item.url
    /\ r.search_vector
         = ToTsvector(Coalesce(item.name) \o <<" ">> \o Coalesce(item.title)
                      \o <<" ">> \o Coalesce(item.content) \o <<" ">>
                      \o Coalesce(item.source_app) \o <<" ">>
                      \o Coalesce(item.source_type))

\* C16: every stored row holds the fields and the search representation of
\* one single submission, and when an upsert commits, the stored row of its
\* key is the one of the submission applied last, which is its own.
C16_SingleWinner ==
    [][/\ \A r \in indexes' : \E item \in Payloads : FromSubmission(r, item)
       /\ \A p \in Procs :
            pc[p] = "upsert_commit" /\ pc'[p] = "done" =>
                /\ Cardinality(RowsOf(indexes', Key(req[p].item))) = 1
                /\ FromSubmission(RowOf(indexes', Key(req[p].item)),
                                  req[p].item)]_vars

\* Two overlapping upserts of one key with different contents have both
\* completed; the stored row is the one of the upsert that ran second.
C16_Witness ==
    \E p, q \in Procs :
        /\ p # q
        /\ req[p].op = "upsert" /\ pc[p] = "done" /\ resp[p].status = 201
        /\ req[q].op = "upsert" /\ pc[q] = "done" /\ resp[q].status = 201
        /\ Key(req[p].item) = Key(req[q].item)
        /\ req[p].item # req[q].item
        /\ req[p].n \in loc[q].overlaps
        /\ loc[q].before = resp[p].record
        /\ FromSubmission(RowOf(indexes, Key(req[q].item)), req[q].item)

\* An item the claim calls invalid: an enumeration field outside its
\* enumeration, or record_id, title or name empty or over its length bound.
ClaimedInvalid(item) ==
    \/ item.source_app \notin SourceApp
    \/ item.source_type \notin SourceType
    \/ Len(item.record_id) \notin 1..MaxRecordIdLen
    \/ Len(item.title) \notin 1..MaxTitleLen
    \/ Len(item.name) \notin 1..MaxNameLen

\* C17: a single-item ingestion of an invalid item is rejected with a
\* validation error before any statement runs.
C17_InvalidItemRejected ==
    \A p \in Procs :
        req[p].op = "upsert" /\ ClaimedInvalid(req[p].item) =>
            pc[p] = "done" /\ resp[p].status = 422

\* C18: a delete by natural key answers 204 exactly when the store held a
\* row of the key when its statement ran, and then the store holds the same
\* rows but that one; otherwise it answers 404 and leaves the store as it
\* is.  (A delete right after a successful one of the same key finds no row.)
C18_DeleteRemovesOrSignalsNotFound ==
    [][\A p \in Procs :
        /\ pc[p] # "delete_commit" /\ pc'[p] = "delete_commit" =>
             (loc'[p].deleted > 0 <=> RowsOf(indexes, req'[p].key) # {})
        /\ pc[p] = "delete_commit" /\ pc'[p] = "done" =>
             IF loc[p].deleted > 0
               THEN /\ resp'[p].status = 204
                    /\ indexes' = indexes \ RowsOf(indexes, req[p].key)
               ELSE /\ resp'[p].status = 404
                    /\ indexes' = indexes
      ]_vars

\* Two deletes of one key have been answered: the first found the row, the
\* one after it did not.
C18_Witness ==
    \E p, q \in Procs :
        /\ p # q
        /\ req[p].op = "delete" /\ pc[p] = "done" /\ resp[p].status = 204
        /\ req[q].op = "delete" /\ pc[q] = "done" /\ resp[q].status = 404
        /\ req[p].key = req[q].key
        /\ req[p].n < req[q].n
        /\ RowsOf(indexes, req[p].key) = {}

\* The number of items of p's batch whose loop body has run.
Attempted(p) ==
    IF pc[p] = "bulk_exec" THEN loc[p].i - 1
    ELSE IF pc[p] \in {"bulk_now", "bulk_commit"} THEN loc[p].i
    ELSE Len(req[p].items)

\* The accumulators of p's batch account for its first n items, each once
\* and in list order.
Accounted(p, n) ==
    LET done == loc[p].done
        errors == loc[p].errors
        counted == {done[k].i : k \in 1..Len(done)}
        failed == (1..n) \ counted
    IN  /\ loc[p].created + loc[p].updated = Len(done)
        /\ counted \subseteq 1..n
        /\ \A k, l \in 1..Len(done) : k < l => done[k].i < done[l].i
        /\ \A k \in 1..Len(done) :
             Key(done[k].record) = Key(req[p].items[done[k].i])
        /\ Len(errors) = Cardinality(failed)
        /\ \A j \in 1..Len(errors) :
             \E i \in failed :
                 /\ Cardinality({x \in failed : x < i}) = j - 1
                 /\ errors[j].source_app = req[p].items[i].source_app
                 /\ errors[j].record_id = req[p].items[i].record_id

\* C19: bulk ingestion attempts every item of the batch once, in list
\* order, and when it has answered, created + updated + the number of
\* entries in errors is the number of items of the batch.
C19_BulkAccountsForEveryItem ==
    \A p \in Procs :
        req[p].op = "bulk" =>
            IF pc[p] = "done"
              THEN /\ resp[p].status = 200
                   /\ Accounted(p, Len(req[p].items))
                   /\ resp[p].created + resp[p].updated + Len(resp[p].errors)
                        = Len(req[p].items)
              ELSE Accounted(p, Attempted(p))

\* The step in which p answers a suggestions request.
SuggestionsAnswered(p) ==
    /\ req'[p] # req[p]
    /\ req'[p].op = "suggestions"
    /\ resp'[p].status = 200

\* C20: the suggestion operation returns at most limit titles, none twice,
\* each containing the partial string case-insensitively, in ascending
\* order: the first limit of all such distinct titles; and it appends no
\* SearchLogEntry.
C20_SuggestionsFirstDistinctTitles ==
    [][\A p \in Procs :
        SuggestionsAnswered(p) =>
            LET sug == resp'[p].suggestions
                all == {r.title :
                          r \in {x \in indexes :
                                   ContainsCI(x.title, req'[p].q)}}
            IN  /\ Len(sug) <= req'[p].limit
                /\ \A i, j \in 1..Len(sug) : i < j => TextLess(sug[i], sug[j])
                /\ SeqToSet(sug) \subseteq all
                /\ Len(sug) = IF Cardinality(all) < req'[p].limit
                                THEN Cardinality(all) ELSE req'[p].limit
                /\ \A t \in all \ SeqToSet(sug) :
                     \A i \in 1..Len(sug) : TextLess(sug[i], t)
                /\ search_log' = search_log]_vars

\* The records of tbl that the filters of list request r select: a filter
\* that is given selects the records carrying exactly its value.
ListSelected(tbl, r) ==
    {x \in tbl :
        /\ (r.source_app # NULL => x.source_app = r.source_app)
        /\ (r.source_type # NULL => x.source_type = r.source_type)}

\* items is the page at offset, of at most limit records, of the set sel in
\* descending order of updated_at: its records are distinct records of sel,
\* most recently updated first, and min(offset, |sel|) other records of sel,
\* none updated earlier than a record of the page, come before it, every
\* remaining record of sel being updated no later than those.
IsPageByUpdatedAt(items, sel, offset, limit) ==
    LET n    == Cardinality(sel)
        left == IF n > offset THEN n - offset ELSE 0
        on   == SeqToSet(items)
    IN  /\ on \subseteq sel
        /\ Cardinality(on) = Len(items)
        /\ Len(items) = IF left < limit THEN left ELSE limit
        /\ \A i, j \in 1..Len(items) :
             i < j => items[i].updated_at >= items[j].updated_at
        /\ \E B \in SUBSET (sel \ on) :
             /\ Cardinality(B) = IF offset < n THEN offset ELSE n
             /\ \A b \in B : \A x \in on : b.updated_at >= x.updated_at
             /\ \A z \in sel \ (B \cup on) :
                  \A y \in B \cup on : y.updated_at >= z.updated_at

\* C21: listing with optional source_app/source_type filters counts, as
\* total, the records matching the filters whatever limit and offset are,
\* and returns that total with the page at the given offset of the matching
\* records in descending order of updated_at.
C21_ListTotalAndPageByUpdatedAt ==
    [][\A p \in Procs :
        /\ req'[p] # req[p] /\ req'[p].op = "list" /\ pc'[p] = "list_items"
             => loc'[p].total = Cardinality(ListSelected(indexes, req'[p]))
        /\ req[p].op = "list" /\ pc[p] = "list_items" /\ pc'[p] = "done"
             => /\ resp'[p].status = 200
                /\ resp'[p].total = loc[p].total
                /\ IsPageByUpdatedAt(resp'[p].items,
                                     ListSelected(indexes, req[p]),
                                     req[p].offset, req[p].limit)
      ]_vars

\* A listing has returned two records updated at different times.
C21_Witness ==
    \E p \in Procs :
        /\ req[p].op = "list" /\ pc[p] = "done"
        /\ resp[p].status = 200
        /\ resp[p].total = 2
        /\ Len(resp[p].items) = 2
        /\ resp[p].items[1].updated_at > resp[p].items[2].updated_at

\* The step in which p's request, carrying a missing or wrong token, is
\* received.
RefusedToken(p) ==
    /\ req'[p] # req[p]
    /\ "api_key" \in DOMAIN req'[p]
    /\ req'[p].api_key # EXPECTED_TOKEN

SeedStep(p) ==
    /\ req[p].op = "lifespan"
    /\ pc[p] = "seed_insert" /\ pc'[p] = "done"

\* C23: seeding is idempotent across restarts.  run_seed goes on to its
\* inserts only when the indexes table is empty, and, the first start
\* having seeded the store every behaviour begins with, no restart inserts
\* a seed Index record or a seed SavedSearch again: a restart leaves both
\* tables as they are, and no seed SavedSearch is ever stored twice.
C23_SeedingIdempotentAcrossRestarts ==
    [][\A p \in Procs :
        /\ req'[p] # req[p] /\ req'[p].op = "lifespan"
             /\ pc'[p] = "seed_insert"
             => indexes = {}
        /\ SeedStep(p)
             => /\ indexes' = indexes
                /\ saved_searches' = saved_searches
                /\ \A i, j \in 1..Len(saved_searches') :
                     i # j => saved_searches'[i] # saved_searches'[j]
      ]_vars

\* The step in which p's bulk ingestion commits and reports no errors.
BulkAnswersWithoutErrors(p) ==
    /\ req[p].op = "bulk"
    /\ pc[p] = "bulk_commit" /\ pc'[p] = "done"
    /\ resp'[p].status = 200
    /\ resp'[p].errors = <<>>

\* C24: when a bulk ingestion reports no errors, the Record Store has grown
\* by exactly the reported created count, and updated is the number of items
\* whose natural key was present when the item was processed, an earlier
\* item of the same batch with the same key included.
C24_BulkCountsMatchStoreGrowth ==
    [][\A p \in Procs :
        BulkAnswersWithoutErrors(p) =>
            /\ Cardinality(indexes') - Cardinality(indexes)
                 = resp'[p].created
            /\ resp'[p].updated
                 = Cardinality({i \in 1..Len(loc[p].done) :
                                  loc[p].done[i].before # NoRow})
      ]_vars

\* The most results a page can hold of total matches: min(limit,
\* max(total - offset, 0)).
PageRoom(total, offset, limit) ==
    LET left == IF total > offset THEN total - offset ELSE 0
    IN  IF left < limit THEN left ELSE limit

\* C25: within one search response total and results agree under every
\* interleaving with concurrent ingestion and deletion: the page never holds
\* more than min(limit, max(total - offset, 0)) results.
C25_ResultsWithinTotal ==
    \A p \in Procs :
        SearchFetched(p) =>
            Len(loc[p].results)
                <= PageRoom(loc[p].total, req[p].offset, req[p].limit)

\* p takes the step.
Steps(p) == req'[p] # req[p] \/ pc'[p] # pc[p]

\* The natural key p's upsert or delete is on.
OnKey(p) ==
    IF req'[p].op = "upsert" THEN Key(req'[p].item) ELSE req'[p].key

\* C26: an upsert or a delete on natural key K leaves every record with a
\* different natural key unchanged in every field (its statement writes no
\* row of another key, and its commit neither adds, removes nor alters
\* one), and search, suggestions and list leave every record unchanged.
C26_OtherKeysUnchanged ==
    [][\A p \in Procs :
        Steps(p) =>
            /\ req'[p].op \in {"upsert", "delete"}
                 => /\ tx'[p].keys \subseteq {OnKey(p)}
                    /\ \A r \in tx'[p].rows : Key(r) = OnKey(p)
                    /\ {r \in indexes' : Key(r) # OnKey(p)}
                         = {r \in indexes : Key(r) # OnKey(p)}
            /\ req'[p].op \in {"search", "suggestions", "list"}
                 => indexes' = indexes /\ tx'[p] = NoTx
      ]_vars

\* An upsert and a delete, on the same key, have both changed the store
\* while it held a record of another key.
C26_Witness ==
    \E p, q \in Procs :
        /\ req[p].op = "upsert" /\ pc[p] = "done" /\ resp[p].status = 201
        /\ req[q].op = "delete" /\ pc[q] = "done" /\ resp[q].status = 204
        /\ req[q].key = Key(req[p].item)
        /\ \E r \in indexes : Key(r) # req[q].key
====
